---- MODULE Spec2Model ----
(***************************************************************************)
(* Ingestion-and-enrichment pipeline of app.py: count probe, paginated     *)
(* page fetch with bounded retry, client-side filtering, sequential        *)
(* collection, the synchronous facade, and the geocoding loop of main().   *)
(* One thread of control; every network call is split into the step that   *)
(* issues the request and the step that receives its response.             *)
(***************************************************************************)
EXTENDS Integers, Sequences, FiniteSets, TLC

VARIABLES
    pc,            \* position of the single thread of control
    gu_code,       \* district code argument (0 stands for a falsy/absent code)
    dong_code,     \* sub-district code argument (0 stands for falsy/absent)
    has_cb,        \* a progress_callback was supplied
    total_count,   \* total_count handed to collect_data_sequential
    current_idx,   \* collect_data_sequential: current_idx
    end_idx,       \* collect_data_sequential: end_idx
    all_data,      \* collect_data_sequential: all_data
    retry,         \* fetch_data_async: retry
    inflight,      \* HTTP requests issued and not yet completed
    probe_ret,     \* return value of get_total_count
    fetch_ret,     \* return value of the last fetch_data_async call
    collect_ret,   \* return value of collect_data_sequential
    facade_ret,    \* return value of get_all_rent_data
    coordinates,   \* main(): coordinates
    events,        \* calls received by the progress callback, in order
    windows,       \* windows handed to fetch_data_async, in order
    pages,         \* fetch_data_async return value of every finished window
    attempts,      \* requests issued by the current fetch_data_async call
    last_resp,     \* last upstream response received
    probe_requests, \* requests issued by get_total_count
    sleeps,        \* asyncio.sleep calls since the current window began, in tenths
    run_requests   \* data-API requests issued by the current get_all_rent_data call

vars == <<pc, gu_code, dong_code, has_cb, total_count, current_idx, end_idx,
          all_data, retry, inflight, probe_ret, fetch_ret, collect_ret,
          facade_ret, coordinates, events, windows, pages, attempts, last_resp,
          probe_requests, sleeps, run_requests>>

----------------------------------------------------------------------------
(* Bounds of the model *)

MaxTotal == 250          \* largest total count the probe reports
MaxRunRows == 1          \* longest row list of a page in a run of main()
MaxRows == 2             \* longest row list of a page in the collector harness
MaxFetchRows == 3        \* longest row list in the single-fetch harness
MaxTermRows == 1         \* longest row list of a page in the termination check

(* Program constants *)

batch_size == 100
max_retries == 3
PROBE_END == 1000
ERROR_PAUSE == 10        \* asyncio.sleep(1), in tenths of a time unit
SUCCESS_PAUSE == 2       \* asyncio.sleep(0.2), in tenths of a time unit

----------------------------------------------------------------------------
(* Values *)

None == <<>>
Some(x) == <<x>>
Min(a, b) == IF a < b THEN a ELSE b

SeqsUpTo(S, n) == UNION {[1..k -> S] : k \in 0..n}

Digits == <<"0", "1", "2", "3", "4", "5", "6", "7", "8", "9">>

\* str() of a non-negative integer code
RECURSIVE Str(_)
Str(n) == IF n < 10 THEN Digits[n + 1]
          ELSE Str(n \div 10) \o Digits[(n % 10) + 1]

\* upstream rows: the two code fields the filter reads and one more field
RecordsAll == [CGG_CD : {"11", "12"}, STDG_CD : {"101", "102"}, BLDG_NM : {"A", "B"}]
RecordsRun == {[CGG_CD |-> "11", STDG_CD |-> "101", BLDG_NM |-> "A"],
               [CGG_CD |-> "11", STDG_CD |-> "101", BLDG_NM |-> "B"],
               [CGG_CD |-> "12", STDG_CD |-> "102", BLDG_NM |-> "A"]}
GuCodes == {11}
DongCodes == {101}
FetchGuCodes == {11, 12}
FetchDongCodes == {101, 102}

\* total counts: the values at, next to and halfway between the page boundaries
TotalCounts == {n \in 0..MaxTotal :
                   n % batch_size \in {0, 1, batch_size \div 2, batch_size - 1}}

\* envelopes and transport outcomes of a page request
FailureResponses == {[kind |-> "RESULT", code |-> "ERROR-500"],
                     [kind |-> "HTTP", status |-> 500],
                     [kind |-> "TIMEOUT"],
                     [kind |-> "EXCEPTION"]}
PageResponses(R, n) == {[kind |-> "ROWS", rows |-> rs] : rs \in SeqsUpTo(R, n)}
                       \cup {[kind |-> "RESULT", code |-> "INFO-200"], [kind |-> "MALFORMED"]}
                       \cup FailureResponses
ProbeResponses == {[kind |-> "COUNT", n |-> n] : n \in TotalCounts}
                  \cup {[kind |-> "RESULT", code |-> "INFO-200"], [kind |-> "MALFORMED"]}
                  \cup FailureResponses
GeoResponses == {[kind |-> "DOCUMENTS", x |-> 127, y |-> 37],
                 [kind |-> "EMPTY"], [kind |-> "HTTP", status |-> 500], [kind |-> "EXCEPTION"]}

PageRequest(s, e) == [op |-> "page", start |-> s, end |-> e]
ProbeRequest == [op |-> "count", start |-> 1, end |-> PROBE_END]
GeoRequest(i) == [op |-> "geocode", start |-> i, end |-> i]

\* error messages
NO_DATA == [msg |-> "no data found"]
COLLECT_FAILED == [msg |-> "data collection failed"]
CollectException == [msg |-> "error during data collection"]
BadFormat == [msg |-> "bad response format"]
ApiError(code) == [msg |-> "API error", code |-> code]
HttpError(status) == [msg |-> "HTTP error", status |-> status]
TimeoutError(s, e) == [msg |-> "request timed out", range |-> <<s, e>>]
ProbeTimeout == [msg |-> "request timed out"]
OtherError == [msg |-> "error occurred"]
RetriesExceeded == [msg |-> "maximum number of retries exceeded"]
WindowFailed(s, e, err) == [msg |-> "window failed", range |-> <<s, e>>, cause |-> err]

Ret(d, e) == [data |-> d, error |-> e]
NoRet == Ret(None, None)

\* variant: the total and the accumulated count change places
ProgressEvent_Swapped(s, e, t, c, st, er) ==
    [start |-> s, end |-> e, total |-> c, collected |-> t, status |-> st, error |-> er]

ProgressEvent(s, e, t, c, st, er) ==
    [start |-> s, end |-> e, total |-> t, collected |-> c, status |-> st, error |-> er]

\* progress_callback(...) behind `if progress_callback:`
Emit(log, ev) == IF has_cb THEN Append(log, ev) ELSE log

\* `await session.get(url)` / requests.get: the request is in flight
Issue(q, req) == Append(q, req)
\* variant: a finished request is never released
Release_Leak(q) == q

\* leaving the `async with session.get(url)` block / requests.get returning
Release(q) == SubSeq(q, 1, Len(q) - 1)

----------------------------------------------------------------------------
(* Client-side filter of fetch_data_async *)

\* variant: the sub-district test is skipped when a district code is given
RECURSIVE FilterLoop_Elif(_, _, _, _, _)
FilterLoop_Elif(rows, i, gu, dong, filtered_rows) ==
    IF i > Len(rows) THEN filtered_rows
    ELSE IF gu # 0
         THEN IF rows[i].CGG_CD # Str(gu)
              THEN FilterLoop_Elif(rows, i + 1, gu, dong, filtered_rows)
              ELSE FilterLoop_Elif(rows, i + 1, gu, dong, Append(filtered_rows, rows[i]))
    ELSE IF dong # 0 /\ rows[i].STDG_CD # Str(dong)
         THEN FilterLoop_Elif(rows, i + 1, gu, dong, filtered_rows)
    ELSE FilterLoop_Elif(rows, i + 1, gu, dong, Append(filtered_rows, rows[i]))

RECURSIVE FilterLoop(_, _, _, _, _)
FilterLoop(rows, i, gu, dong, filtered_rows) ==
    IF i > Len(rows) THEN filtered_rows
    ELSE IF gu # 0 /\ rows[i].CGG_CD # Str(gu)
         THEN FilterLoop(rows, i + 1, gu, dong, filtered_rows)
    ELSE IF dong # 0 /\ rows[i].STDG_CD # Str(dong)
         THEN FilterLoop(rows, i + 1, gu, dong, filtered_rows)
    ELSE FilterLoop(rows, i + 1, gu, dong, Append(filtered_rows, rows[i]))

\* variant: the rows are returned as they arrived
ApplyFilter_Verbatim(rows, gu, dong) == rows

\* `if gu_code or dong_code:` ... `return filtered_rows, None` / `return rows, None`
ApplyFilter(rows, gu, dong) ==
    IF gu # 0 \/ dong # 0 THEN FilterLoop(rows, 1, gu, dong, <<>>) ELSE rows

\* variant: the first wait is already two time units
BackoffDelay_Doubled(r) == 10 * 2 ^ (r + 1)

\* `await asyncio.sleep(2 ** retry)`, in tenths of a time unit
BackoffDelay(r) == 10 * 2 ^ r

\* variant: gives up one attempt early
CanRetry_OneShort(r) == r < max_retries - 2

\* `retry < max_retries - 1`: the attempt may be repeated
CanRetry(r) == r < max_retries - 1

\* variant: the no-data code is handled like any other result code
IsNoData_Never(code) == FALSE

\* `code == 'INFO-200'`: the structured result says there is no data
IsNoData(code) == code = "INFO-200"

\* variant: an unexpected envelope is retried like a transient failure
UnexpectedShape_Retried(r) ==
    IF CanRetry(r) THEN None ELSE Some(Ret(None, Some(BadFormat)))

\* HTTP 200 without the dataset key, or with neither `row` nor `RESULT`:
\* the fall-through `return None, "잘못된 응답 형식"`
UnexpectedShape(r) == Some(Ret(None, Some(BadFormat)))

\* one attempt of fetch_data_async on response resp at retry index r:
\* None when the loop sleeps and continues, else the value returned
FetchAttempt(resp, r, s, e, gu, dong) ==
    CASE resp.kind = "ROWS" ->
            Some(Ret(Some(ApplyFilter(resp.rows, gu, dong)), None))
      [] resp.kind = "RESULT" ->
            IF IsNoData(resp.code) THEN Some(Ret(Some(<<>>), None))
            ELSE IF CanRetry(r) THEN None
            ELSE Some(Ret(None, Some(ApiError(resp.code))))
      [] resp.kind = "MALFORMED" -> UnexpectedShape(r)
      [] resp.kind = "HTTP" ->
            IF CanRetry(r) THEN None
            ELSE Some(Ret(None, Some(HttpError(resp.status))))
      [] resp.kind = "TIMEOUT" ->
            IF CanRetry(r) THEN None
            ELSE Some(Ret(None, Some(TimeoutError(s, e))))
      [] resp.kind = "EXCEPTION" ->
            IF CanRetry(r) THEN None
            ELSE Some(Ret(None, Some(OtherError)))

\* variant: windows of half the batch size
WindowEnd_Half(cur, total) == Min(cur + batch_size \div 2 - 1, total)

\* variant: every window is one offset short
WindowEnd_Short(cur, total) == Min(cur + batch_size - 2, total)

\* variant: the last window is not clipped to the total count
WindowEnd_NoClip(cur, total) == cur + batch_size - 1

\* `min(current_idx + batch_size - 1, total_count)`
WindowEnd(cur, total) == Min(cur + batch_size - 1, total)

\* variant: the new page is put in front of the accumulator
Extend_Prepend(acc, data) == IF data # <<>> THEN data \o acc ELSE acc

\* `if data: all_data.extend(data)`
Extend(acc, data) == IF data # <<>> THEN acc \o data ELSE acc

\* variant: a zero count is not recognised
ZeroCount_Never(n) == FALSE

\* `if not total_count or total_count == 0`
ZeroCount(n) == n = 0

\* variant: the empty collection is reported with the zero-count message
FacadeResult_NoData(data) ==
    IF data # <<>> THEN Ret(Some(data), None) ELSE Ret(None, Some(NO_DATA))

\* variant: the empty collection is handed back together with the error
FacadeResult_Both(data) ==
    IF data # <<>> THEN Ret(Some(data), None) ELSE Ret(Some(data), Some(COLLECT_FAILED))

\* `if all_data: return pd.DataFrame(all_data), None` / `return None, "..."`
FacadeResult(data) ==
    IF data # <<>> THEN Ret(Some(data), None) ELSE Ret(None, Some(COLLECT_FAILED))

\* variant: a probe timeout is reported as a count of zero
ProbeResult_SwallowTimeout(resp) ==
    CASE resp.kind = "COUNT" -> Ret(Some(resp.n), None)
      [] resp.kind = "RESULT" -> Ret(None, Some(ApiError(resp.code)))
      [] resp.kind = "MALFORMED" -> Ret(None, Some(BadFormat))
      [] resp.kind = "HTTP" -> Ret(None, Some(HttpError(resp.status)))
      [] resp.kind = "TIMEOUT" -> Ret(Some(0), None)
      [] resp.kind = "EXCEPTION" -> Ret(None, Some(OtherError))

\* get_total_count on its single response
ProbeResult(resp) ==
    CASE resp.kind = "COUNT" -> Ret(Some(resp.n), None)
      [] resp.kind = "RESULT" -> Ret(None, Some(ApiError(resp.code)))
      [] resp.kind = "MALFORMED" -> Ret(None, Some(BadFormat))
      [] resp.kind = "HTTP" -> Ret(None, Some(HttpError(resp.status)))
      [] resp.kind = "TIMEOUT" -> Ret(None, Some(ProbeTimeout))
      [] resp.kind = "EXCEPTION" -> Ret(None, Some(OtherError))

\* variant: an empty documents list is turned into the origin
GetCoordinates_Origin(resp) ==
    IF resp.kind = "DOCUMENTS" THEN <<Some(resp.x), Some(resp.y)>>
    ELSE IF resp.kind = "EMPTY" THEN <<Some(0), Some(0)>>
    ELSE <<None, None>>

\* get_coordinates on its response: (x, y), or (None, None)
GetCoordinates(resp) ==
    IF resp.kind = "DOCUMENTS" THEN <<Some(resp.x), Some(resp.y)>> ELSE <<None, None>>

----------------------------------------------------------------------------
(* Initial states *)

Locals ==
    /\ current_idx = 0 /\ end_idx = 0 /\ all_data = <<>>
    /\ retry = 0 /\ attempts = 0 /\ inflight = <<>>
    /\ probe_ret = NoRet /\ fetch_ret = NoRet /\ collect_ret = None /\ facade_ret = NoRet
    /\ coordinates = <<>> /\ events = <<>> /\ windows = <<>> /\ pages = <<>>
    /\ last_resp = [kind |-> "NONE"]
    /\ probe_requests = 0 /\ sleeps = <<>> /\ run_requests = 0

\* main() before the button is pressed
Init ==
    /\ pc = "idle"
    /\ gu_code = 0 /\ dong_code = 0 /\ has_cb = TRUE /\ total_count = 0
    /\ Locals

----------------------------------------------------------------------------
(* main() and get_all_rent_data *)

\* the button is pressed: get_all_rent_data starts and the count request is sent
Main_Click(gu, dong) ==
    /\ pc = "idle"
    /\ gu_code' = gu /\ dong_code' = dong
    /\ events' = Emit(events, ProgressEvent(0, 0, 0, 0, Some("counting"), None))
    /\ inflight' = Issue(inflight, ProbeRequest)
    /\ pc' = "probe_wait"
    /\ UNCHANGED <<has_cb, total_count, current_idx, end_idx, all_data, retry,
                   probe_ret, fetch_ret, collect_ret, facade_ret, coordinates,
                   windows, pages, attempts, last_resp>>
    /\ probe_requests' = probe_requests + 1
    /\ run_requests' = run_requests + 1
    /\ UNCHANGED sleeps

\* get_total_count receives its response and returns
Probe_Response(resp) ==
    /\ pc = "probe_wait"
    /\ inflight' = Release(inflight)
    /\ last_resp' = resp
    /\ probe_ret' = ProbeResult(resp)
    /\ pc' = "probed"
    /\ UNCHANGED <<gu_code, dong_code, has_cb, total_count, current_idx, end_idx,
                   all_data, retry, fetch_ret, collect_ret, facade_ret, coordinates,
                   events, windows, pages, attempts>>
    /\ UNCHANGED <<probe_requests, sleeps, run_requests>>

\* get_all_rent_data after the probe: return an error or start the collector
Facade_AfterProbe ==
    /\ pc = "probed"
    /\ IF probe_ret.error # None
          THEN /\ facade_ret' = Ret(None, probe_ret.error)
               /\ pc' = "returned"
               /\ UNCHANGED <<total_count, current_idx, all_data, events>>
       ELSE IF ZeroCount(probe_ret.data[1])
          THEN /\ facade_ret' = Ret(None, Some(NO_DATA))
               /\ pc' = "returned"
               /\ UNCHANGED <<total_count, current_idx, all_data, events>>
       ELSE /\ events' = Emit(events, ProgressEvent(0, 0, probe_ret.data[1], 0,
                                                     Some("collecting"), None))
            /\ total_count' = probe_ret.data[1]
            /\ all_data' = <<>>
            /\ current_idx' = 1
            /\ pc' = "loop"
            /\ UNCHANGED facade_ret
    /\ UNCHANGED <<gu_code, dong_code, has_cb, end_idx, retry, inflight, probe_ret,
                   fetch_ret, collect_ret, coordinates, windows, pages, attempts,
                   last_resp>>
    /\ UNCHANGED <<probe_requests, sleeps, run_requests>>

\* get_all_rent_data after the collector returned
Facade_AfterCollect ==
    /\ pc = "collected"
    /\ facade_ret' = FacadeResult(collect_ret[1])
    /\ pc' = "returned"
    /\ UNCHANGED <<gu_code, dong_code, has_cb, total_count, current_idx, end_idx,
                   all_data, retry, inflight, probe_ret, fetch_ret, collect_ret,
                   coordinates, events, windows, pages, attempts, last_resp>>
    /\ UNCHANGED <<probe_requests, sleeps, run_requests>>

\* get_all_rent_data: `except Exception` around the collector
Facade_CatchException ==
    /\ pc = "raised"
    /\ facade_ret' = Ret(None, Some(CollectException))
    /\ pc' = "returned"
    /\ UNCHANGED <<gu_code, dong_code, has_cb, total_count, current_idx, end_idx,
                   all_data, retry, inflight, probe_ret, fetch_ret, collect_ret,
                   coordinates, events, windows, pages, attempts, last_resp>>
    /\ UNCHANGED <<probe_requests, sleeps, run_requests>>

----------------------------------------------------------------------------
(* collect_data_sequential and fetch_data_async *)

\* a page request is added to the tally of the get_all_rent_data call that is
\* running; the tally is not kept when the collector is called on its own
CountPageRequest(n) == IF probe_requests > 0 THEN n + 1 ELSE n

\* loop head with a window left: progress event, then the first request of the window
Collect_BeginWindow ==
    /\ pc = "loop"
    /\ current_idx <= total_count
    /\ LET e == WindowEnd(current_idx, total_count) IN
          /\ end_idx' = e
          /\ events' = Emit(events, ProgressEvent(current_idx, e, total_count,
                                                  Len(all_data), None, None))
          /\ windows' = Append(windows, <<current_idx, e>>)
          /\ inflight' = Issue(inflight, PageRequest(current_idx, e))
    /\ retry' = 0
    /\ attempts' = 1
    /\ fetch_ret' = NoRet
    /\ pc' = "fetch_wait"
    /\ UNCHANGED <<gu_code, dong_code, has_cb, total_count, current_idx, all_data,
                   probe_ret, collect_ret, facade_ret, coordinates, pages, last_resp>>
    /\ sleeps' = <<>>
    /\ run_requests' = CountPageRequest(run_requests)
    /\ UNCHANGED probe_requests

\* the progress callback raises inside the collector
Collect_CallbackRaises ==
    /\ pc = "loop"
    /\ current_idx <= total_count
    /\ has_cb
    /\ pc' = "raised"
    /\ UNCHANGED <<gu_code, dong_code, has_cb, total_count, current_idx, end_idx,
                   all_data, retry, inflight, probe_ret, fetch_ret, collect_ret,
                   facade_ret, coordinates, events, windows, pages, attempts,
                   last_resp>>
    /\ UNCHANGED <<probe_requests, sleeps, run_requests>>

\* variant: the same short pause after a failed window
PauseAfter_AlwaysShort(ret) == SUCCESS_PAUSE

\* `await asyncio.sleep(1)` in the error branch, `await asyncio.sleep(0.2)` otherwise
PauseAfter(ret) == IF ret.error # None THEN ERROR_PAUSE ELSE SUCCESS_PAUSE

\* variant: a failed window ends the collection
CollectorStep_BreakOnError(ret) ==
    /\ fetch_ret' = ret
    /\ pages' = Append(pages, ret)
    /\ IF ret.error # None
          THEN /\ events' = Emit(events,
                       ProgressEvent(current_idx, end_idx, total_count, Len(all_data), None,
                                     Some(WindowFailed(current_idx, end_idx, ret.error[1]))))
               /\ current_idx' = total_count + 1
               /\ UNCHANGED all_data
          ELSE /\ all_data' = Extend(all_data, ret.data[1])
               /\ current_idx' = end_idx + 1
               /\ UNCHANGED events
    /\ pc' = "pause"
    /\ sleeps' = Append(sleeps, [by |-> "collector", d |-> PauseAfter(ret)])

\* the collector's handling of the value fetch_data_async returned
CollectorStep(ret) ==
    /\ fetch_ret' = ret
    /\ pages' = Append(pages, ret)
    /\ current_idx' = end_idx + 1
    /\ IF ret.error # None
          THEN /\ events' = Emit(events,
                       ProgressEvent(current_idx, end_idx, total_count, Len(all_data), None,
                                     Some(WindowFailed(current_idx, end_idx, ret.error[1]))))
               /\ UNCHANGED all_data
          ELSE /\ all_data' = Extend(all_data, ret.data[1])
               /\ UNCHANGED events
    /\ pc' = "pause"
    /\ sleeps' = Append(sleeps, [by |-> "collector", d |-> PauseAfter(ret)])

\* a page request completes: fetch_data_async returns to the collector or backs off
Fetch_Response(resp) ==
    /\ pc = "fetch_wait"
    /\ inflight' = Release(inflight)
    /\ last_resp' = resp
    /\ LET out == FetchAttempt(resp, retry, current_idx, end_idx, gu_code, dong_code) IN
          IF out = None
             THEN /\ pc' = "backoff"
                  /\ sleeps' = Append(sleeps, [by |-> "fetcher", d |-> BackoffDelay(retry)])
                  /\ UNCHANGED <<fetch_ret, pages, current_idx, all_data, events>>
             ELSE CollectorStep(out[1])
    /\ UNCHANGED <<gu_code, dong_code, has_cb, total_count, end_idx, retry, probe_ret,
                   collect_ret, facade_ret, coordinates, windows, attempts>>
    /\ UNCHANGED <<probe_requests, run_requests>>

\* the backoff sleep ends: next attempt of the same window, or the retry loop is exhausted
Fetch_Retry ==
    /\ pc = "backoff"
    /\ IF retry + 1 < max_retries
          THEN /\ retry' = retry + 1
               /\ attempts' = attempts + 1
               /\ run_requests' = CountPageRequest(run_requests)
               /\ inflight' = Issue(inflight, PageRequest(current_idx, end_idx))
               /\ pc' = "fetch_wait"
               /\ UNCHANGED <<fetch_ret, pages, current_idx, all_data, events, sleeps>>
          ELSE /\ CollectorStep(Ret(None, Some(RetriesExceeded)))
               /\ UNCHANGED <<retry, attempts, inflight, run_requests>>
    /\ UNCHANGED <<gu_code, dong_code, has_cb, total_count, end_idx, probe_ret,
                   collect_ret, facade_ret, coordinates, windows, last_resp>>
    /\ UNCHANGED probe_requests

\* the collector's sleep after a window ends
Collect_Resume ==
    /\ pc = "pause"
    /\ pc' = "loop"
    /\ UNCHANGED <<gu_code, dong_code, has_cb, total_count, current_idx, end_idx,
                   all_data, retry, inflight, probe_ret, fetch_ret, collect_ret,
                   facade_ret, coordinates, events, windows, pages, attempts,
                   last_resp>>
    /\ UNCHANGED <<probe_requests, sleeps, run_requests>>

\* loop head with no window left: return all_data
Collect_Return ==
    /\ pc = "loop"
    /\ ~(current_idx <= total_count)
    /\ collect_ret' = Some(all_data)
    /\ pc' = "collected"
    /\ UNCHANGED <<gu_code, dong_code, has_cb, total_count, current_idx, end_idx,
                   all_data, retry, inflight, probe_ret, fetch_ret, facade_ret,
                   coordinates, events, windows, pages, attempts, last_resp>>
    /\ UNCHANGED <<probe_requests, sleeps, run_requests>>

----------------------------------------------------------------------------
(* main(): after the facade, the geocoding loop *)

\* main() shows the error, or starts the coordinate loop
Main_AfterFacade ==
    /\ pc = "returned"
    /\ IF facade_ret.error # None THEN pc' = "done"
       ELSE IF facade_ret.data = None \/ facade_ret.data[1] = <<>> THEN pc' = "done"
       ELSE pc' = "geo_loop"
    /\ coordinates' = <<>>
    /\ UNCHANGED <<gu_code, dong_code, has_cb, total_count, current_idx, end_idx,
                   all_data, retry, inflight, probe_ret, fetch_ret, collect_ret,
                   facade_ret, events, windows, pages, attempts, last_resp>>
    /\ UNCHANGED <<probe_requests, sleeps, run_requests>>

\* get_coordinates sends the request for the next address
Geo_Request ==
    /\ pc = "geo_loop"
    /\ Len(coordinates) < Len(facade_ret.data[1])
    /\ inflight' = Issue(inflight, GeoRequest(Len(coordinates) + 1))
    /\ pc' = "geo_wait"
    /\ UNCHANGED <<gu_code, dong_code, has_cb, total_count, current_idx, end_idx,
                   all_data, retry, probe_ret, fetch_ret, collect_ret, facade_ret,
                   coordinates, events, windows, pages, attempts, last_resp>>
    /\ UNCHANGED <<probe_requests, sleeps, run_requests>>

\* get_coordinates returns (lng, lat); main() appends (lat, lng)
Geo_Response(resp) ==
    /\ pc = "geo_wait"
    /\ inflight' = Release(inflight)
    /\ last_resp' = resp
    /\ LET c == GetCoordinates(resp) IN
          coordinates' = Append(coordinates, <<c[2], c[1]>>)
    /\ pc' = "geo_loop"
    /\ UNCHANGED <<gu_code, dong_code, has_cb, total_count, current_idx, end_idx,
                   all_data, retry, probe_ret, fetch_ret, collect_ret, facade_ret,
                   events, windows, pages, attempts>>
    /\ UNCHANGED <<probe_requests, sleeps, run_requests>>

\* every address has been looked up: the result is stored
Main_Finish ==
    /\ pc = "geo_loop"
    /\ Len(coordinates) = Len(facade_ret.data[1])
    /\ pc' = "done"
    /\ UNCHANGED <<gu_code, dong_code, has_cb, total_count, current_idx, end_idx,
                   all_data, retry, inflight, probe_ret, fetch_ret, collect_ret,
                   facade_ret, coordinates, events, windows, pages, attempts,
                   last_resp>>
    /\ UNCHANGED <<probe_requests, sleeps, run_requests>>

----------------------------------------------------------------------------
(* Specifications *)

\* a whole run of main()
Next ==
    \/ \E gu \in GuCodes, dong \in {0} \cup DongCodes : Main_Click(gu, dong)
    \/ \E resp \in ProbeResponses : Probe_Response(resp)
    \/ Facade_AfterProbe
    \/ Collect_BeginWindow
    \/ Collect_CallbackRaises
    \/ \E resp \in PageResponses(RecordsRun, MaxRunRows) : Fetch_Response(resp)
    \/ Fetch_Retry
    \/ Collect_Resume
    \/ Collect_Return
    \/ Facade_AfterCollect
    \/ Facade_CatchException
    \/ Main_AfterFacade
    \/ Geo_Request
    \/ \E resp \in GeoResponses : Geo_Response(resp)
    \/ Main_Finish

Spec == Init /\ [][Next]_vars

\* collect_data_sequential called on its own with any total count and filter
InitCollect ==
    /\ pc = "loop"
    /\ gu_code \in {0} \cup GuCodes
    /\ dong_code \in {0} \cup DongCodes
    /\ has_cb \in BOOLEAN
    /\ total_count \in TotalCounts
    /\ current_idx = 1 /\ end_idx = 0 /\ all_data = <<>>
    /\ retry = 0 /\ attempts = 0 /\ inflight = <<>>
    /\ probe_ret = NoRet /\ fetch_ret = NoRet /\ collect_ret = None /\ facade_ret = NoRet
    /\ coordinates = <<>> /\ events = <<>> /\ windows = <<>> /\ pages = <<>>
    /\ last_resp = [kind |-> "NONE"]
    /\ probe_requests = 0 /\ sleeps = <<>> /\ run_requests = 0

NextCollect ==
    \/ Collect_BeginWindow
    \/ Collect_CallbackRaises
    \/ \E resp \in PageResponses(RecordsRun, MaxRows) : Fetch_Response(resp)
    \/ Fetch_Retry
    \/ Collect_Resume
    \/ Collect_Return

SpecCollect == InitCollect /\ [][NextCollect]_vars

\* the collector with shorter pages, every request and every sleep completing
NextTerm ==
    \/ Collect_BeginWindow
    \/ Collect_CallbackRaises
    \/ \E resp \in PageResponses(RecordsRun, MaxTermRows) : Fetch_Response(resp)
    \/ Fetch_Retry
    \/ Collect_Resume
    \/ Collect_Return

SpecTerm == InitCollect /\ [][NextTerm]_vars /\ WF_vars(NextTerm)

\* fetch_data_async called on the window [1, 100], its first request in flight
InitFetch ==
    /\ pc = "fetch_wait"
    /\ gu_code \in {0} \cup FetchGuCodes
    /\ dong_code \in {0} \cup FetchDongCodes
    /\ has_cb = TRUE
    /\ total_count = batch_size
    /\ current_idx = 1 /\ end_idx = batch_size /\ all_data = <<>>
    /\ retry = 0 /\ attempts = 1 /\ inflight = <<PageRequest(1, batch_size)>>
    /\ probe_ret = NoRet /\ fetch_ret = NoRet /\ collect_ret = None /\ facade_ret = NoRet
    /\ coordinates = <<>>
    /\ events = <<ProgressEvent(1, batch_size, batch_size, 0, None, None)>>
    /\ windows = <<<<1, batch_size>>>> /\ pages = <<>>
    /\ last_resp = [kind |-> "NONE"]
    /\ probe_requests = 0 /\ sleeps = <<>> /\ run_requests = 0

NextFetch ==
    \/ \E resp \in PageResponses(RecordsAll, MaxFetchRows) : Fetch_Response(resp)
    \/ Fetch_Retry

SpecFetch == InitFetch /\ [][NextFetch]_vars

----------------------------------------------------------------------------
(* Properties *)

Ceil(n, d) == (n + d - 1) \div d
Offsets(w) == w[1]..w[2]
Size(w) == w[2] - w[1] + 1
INFO_200 == [kind |-> "RESULT", code |-> "INFO-200"]

\* warning events that name the window w, by position and in the message
WarningsFor(w) ==
    {k \in DOMAIN events :
        /\ events[k].error # None
        /\ events[k].error[1].range = w
        /\ events[k].start = w[1] /\ events[k].end = w[2]}

\* the records of the pages that returned without error, in page order
RECURSIVE FlattenOk(_)
FlattenOk(ps) ==
    IF ps = <<>> THEN <<>>
    ELSE LET h == Head(ps) IN
         (IF h.error = None THEN h.data[1] ELSE <<>>) \o FlattenOk(Tail(ps))

\* C1: for every total count >= 0 the collector requests exactly
\* ceil(total_count/100) windows: the first starts at 1, each next one starts
\* at the previous end + 1, each has 100 offsets except possibly the last,
\* which ends at total_count; the windows are pairwise disjoint and, once the
\* collector has returned, their union is exactly [1, total_count].
C1_WindowsCoverRange ==
    /\ \A i \in 1..Len(windows) :
          /\ windows[i][1] = IF i = 1 THEN 1 ELSE windows[i - 1][2] + 1
          /\ \/ Size(windows[i]) = 100
             \/ /\ i = Len(windows)
                /\ windows[i][2] = total_count
                /\ Size(windows[i]) \in 1..100
          /\ windows[i][2] <= total_count
    /\ \A i, j \in 1..Len(windows) :
          i # j => Offsets(windows[i]) \cap Offsets(windows[j]) = {}
    /\ Len(windows) <= Ceil(total_count, 100)
    /\ pc = "collected" =>
          /\ Len(windows) = Ceil(total_count, 100)
          /\ UNION {Offsets(windows[i]) : i \in 1..Len(windows)} = 1..total_count

\* the collector returned after the windows [1,100], [101,200], [201,250]
C1_Witness ==
    /\ pc = "collected"
    /\ total_count = 250
    /\ windows = <<<<1, 100>>, <<101, 200>>, <<201, 250>>>>

\* C2: a window whose page fetch returned an error adds no record, is
\* announced by exactly one warning event naming its bounds (when a progress
\* callback is supplied), is not fetched again, and does not stop the
\* collection: every later window is fetched and the collector returns the
\* records of the windows that succeeded.
C2_FailedWindowSkipped ==
    /\ \A i \in 1..Len(pages) :
          pages[i].error # None =>
             /\ has_cb => Cardinality(WarningsFor(windows[i])) = 1
             /\ Cardinality({j \in 1..Len(windows) : windows[j] = windows[i]}) = 1
             /\ i < Len(windows) => windows[i + 1][1] = windows[i][2] + 1
    /\ pc = "pause" /\ fetch_ret.error # None =>
          /\ pages[Len(pages)] = fetch_ret
          /\ current_idx = end_idx + 1
    /\ all_data = FlattenOk(pages)
    /\ pc = "collected" =>
          /\ Len(pages) = Ceil(total_count, 100)
          /\ collect_ret = Some(FlattenOk(pages))

\* total count 200, window [101,200] failed, the records of [1,100] are returned
C2_Witness ==
    /\ pc = "collected"
    /\ total_count = 200
    /\ has_cb
    /\ Len(pages) = 2
    /\ pages[1].error = None /\ pages[2].error # None
    /\ Len(pages[1].data[1]) = 2
    /\ collect_ret = Some(pages[1].data[1])
    /\ Cardinality(WarningsFor(<<101, 200>>)) = 1

\* C3: one call of the page fetcher issues at most 3 requests; after a
\* transient failure (timeout, non-200 status, result code other than the
\* no-data code, exception) it returns an error only when that was the 3rd
\* attempt, and backs off after the 1st and 2nd; a page that arrives at
\* attempt k is returned after exactly k requests.
C3_BoundedRetry ==
    /\ attempts <= 3
    /\ pc = "backoff" =>
          /\ last_resp \in FailureResponses
          /\ attempts < 3
          /\ fetch_ret = NoRet /\ pages = <<>>
    /\ pc = "pause" /\ last_resp \in FailureResponses =>
          /\ attempts = 3
          /\ fetch_ret.data = None /\ fetch_ret.error # None
    /\ pc = "pause" /\ last_resp.kind = "ROWS" =>
          /\ attempts = retry + 1
          /\ inflight = <<>>
          /\ fetch_ret.error = None
          /\ fetch_ret.data # None
          /\ \A k \in 1..Len(fetch_ret.data[1]) :
                \E m \in 1..Len(last_resp.rows) : fetch_ret.data[1][k] = last_resp.rows[m]

\* three timeouts in a row: the error is returned after the third request
C3_Witness ==
    /\ pc = "pause"
    /\ last_resp.kind = "TIMEOUT"
    /\ attempts = 3
    /\ fetch_ret.error # None

\* C4: a response carrying the no-data code INFO-200 makes the page fetcher
\* return an empty list and no error at whichever attempt it arrives, with no
\* further request and no backoff; the collector records no warning for the
\* window and moves to the next window.
C4_NoDataIsSuccess ==
    /\ pc = "backoff" => last_resp # INFO_200
    /\ pc = "pause" /\ last_resp = INFO_200 =>
          /\ fetch_ret = Ret(Some(<<>>), None)
          /\ attempts = retry + 1
          /\ inflight = <<>>
          /\ WarningsFor(windows[Len(windows)]) = {}
          /\ pages[Len(pages)] = fetch_ret
          /\ current_idx = end_idx + 1

\* INFO-200 arrives at the second attempt of the first window of two
C4_Witness ==
    /\ pc = "pause"
    /\ last_resp = INFO_200
    /\ attempts = 2
    /\ has_cb
    /\ end_idx < total_count
    /\ events # <<>>

XorRet(r) == (r.data = None) # (r.error = None)
AfterProbe == pc \notin {"idle", "probe_wait"}
AfterFacade == pc \in {"returned", "geo_loop", "geo_wait", "done"}
ProbeFailed == probe_ret.error # None \/ probe_ret.data = Some(0)

\* C5: the facade calls the count probe first; when the probe returns an
\* error or a zero count the facade returns an error and never starts the
\* collector, so no page request is issued in that run.
C5_ProbeGatesCollector ==
    /\ windows # <<>> =>
          AfterProbe /\ probe_ret.error = None /\ probe_ret.data # None
    /\ AfterProbe /\ ProbeFailed =>
          /\ pc \in {"probed", "returned", "done"}
          /\ windows = <<>> /\ pages = <<>> /\ collect_ret = None
          /\ \A k \in DOMAIN inflight : inflight[k].op # "page"
          /\ pc # "probed" => facade_ret.data = None /\ facade_ret.error # None

\* the probe reported a total count of 0 and the facade returned the no-data error
C5_Witness ==
    /\ pc = "returned"
    /\ probe_ret = Ret(Some(0), None)
    /\ facade_ret = Ret(None, Some(NO_DATA))
    /\ windows = <<>>

\* C6: every value returned by the count probe, the page fetcher and the
\* facade has exactly one of its two components present: a result and no
\* error, or an error and no result; also when an exception is raised
\* during collection.
C6_ResultXorError ==
    /\ AfterProbe => XorRet(probe_ret)
    /\ \A i \in 1..Len(pages) : XorRet(pages[i])
    /\ pc = "pause" => XorRet(fetch_ret)
    /\ AfterFacade => XorRet(facade_ret)

\* an exception raised in the collector after a page was collected
C6_Witness ==
    /\ pc = "returned"
    /\ facade_ret = Ret(None, Some(CollectException))
    /\ all_data # <<>>
    /\ XorRet(probe_ret)

\* the codes of the model written as the upstream writes them
Decimal == (11 :> "11") @@ (12 :> "12") @@ (101 :> "101") @@ (102 :> "102")
KeptByFilter(row) ==
    /\ gu_code # 0 => row.CGG_CD = Decimal[gu_code]
    /\ dong_code # 0 => row.STDG_CD = Decimal[dong_code]

\* C7: the filter applied to a page returns exactly the subsequence, in
\* original order, of the rows whose CGG_CD equals the stringified district
\* code when one is given and whose STDG_CD equals the stringified
\* sub-district code when one is given; with neither given the output is the
\* input.
C7_FilterIsSubsequence ==
    pc = "pause" /\ last_resp.kind = "ROWS" =>
       /\ fetch_ret.data = Some(SelectSeq(last_resp.rows, KeptByFilter))
       /\ gu_code = 0 /\ dong_code = 0 => fetch_ret.data = Some(last_resp.rows)

\* both codes given, three rows, the middle one dropped, the other two kept in order
C7_Witness ==
    /\ pc = "pause"
    /\ last_resp.kind = "ROWS"
    /\ gu_code # 0 /\ dong_code # 0
    /\ Len(last_resp.rows) = 3
    /\ last_resp.rows[1].BLDG_NM # last_resp.rows[3].BLDG_NM
    /\ fetch_ret.data = Some(<<last_resp.rows[1], last_resp.rows[3]>>)

RECURSIVE Flatten(_)
Flatten(ps) == IF ps = <<>> THEN <<>> ELSE Head(ps).data[1] \o Flatten(Tail(ps))

\* C8: when every page succeeds the collector returns the concatenation, in
\* increasing window order, of the records each window's fetch returned,
\* with the order inside each window unchanged; a total count of 250 fetches
\* [1,100], [101,200], [201,250] in that order.
C8_ConcatenationInOrder ==
    pc = "collected" /\ (\A i \in 1..Len(pages) : pages[i].error = None) =>
       /\ collect_ret = Some(Flatten(pages))
       /\ \A i \in 1..(Len(windows) - 1) : windows[i][2] < windows[i + 1][1]
       /\ total_count = 250 => windows = <<<<1, 100>>, <<101, 200>>, <<201, 250>>>>

\* three successful pages with different records, returned in page order
C8_Witness ==
    /\ pc = "collected"
    /\ total_count = 250
    /\ Len(pages) = 3
    /\ \A i \in 1..3 : pages[i].error = None /\ Len(pages[i].data[1]) = 2
    /\ pages[1].data[1] # pages[2].data[1]
    /\ pages[1].data[1][1] # pages[1].data[1][2]
    /\ Len(collect_ret[1]) = 6

Waiting == pc \in {"probe_wait", "fetch_wait", "geo_wait"}

\* C9: the requests of a run are issued one at a time: never two in flight
\* together, one in flight exactly while the run waits for a response, and a
\* page request in flight belongs to the current window, every earlier
\* window having finished.
C9_OneRequestAtATime ==
    /\ Len(inflight) <= 1
    /\ Waiting <=> Len(inflight) = 1
    /\ \A k \in DOMAIN inflight :
          /\ inflight[k].op = "count" <=> pc = "probe_wait"
          /\ inflight[k].op = "geocode" <=> pc = "geo_wait"
          /\ inflight[k].op = "page" =>
                /\ pc = "fetch_wait"
                /\ <<inflight[k].start, inflight[k].end>> = windows[Len(windows)]
                /\ Len(pages) = Len(windows) - 1

\* the second geocoding request is in flight after two windows were fetched
C9_Witness ==
    /\ pc = "geo_wait"
    /\ inflight = <<GeoRequest(2)>>
    /\ Len(windows) = 2
    /\ Len(coordinates) = 1

ProbeSucceeded == probe_ret.error = None /\ probe_ret.data # None /\ probe_ret.data[1] > 0
ZeroResultRun ==
    /\ ProbeSucceeded
    /\ collect_ret = Some(<<>>)
    /\ \A i \in 1..Len(pages) : pages[i].error = None
FailedRun ==
    /\ ProbeSucceeded
    /\ collect_ret = Some(<<>>)
    /\ \E i \in 1..Len(pages) : pages[i].error # None

\* C10: a run whose probe succeeds and whose collection ends empty without
\* any failed window is reported by the facade with an outcome of its own,
\* different from the outcome reported when the collection is empty because
\* windows failed with errors.
C10_ZeroResultDistinct ==
    AfterFacade =>
       /\ FailedRun => facade_ret = Ret(None, Some(COLLECT_FAILED))
       /\ ZeroResultRun =>
             /\ facade_ret.data = None
             /\ facade_ret.error \notin {None, Some(COLLECT_FAILED)}

\* C11: after a probe with a positive count, an empty collection makes the
\* facade return the collection-failed error, which is not the error it
\* returns for a zero count; a non-empty collection is returned with no error.
C11_EmptyCollectionError ==
    AfterFacade =>
       /\ probe_ret = Ret(Some(0), None) => facade_ret = Ret(None, Some(NO_DATA))
       /\ ProbeSucceeded /\ collect_ret = Some(<<>>) =>
             /\ facade_ret = Ret(None, Some(COLLECT_FAILED))
             /\ facade_ret # Ret(None, Some(NO_DATA))
       /\ ProbeSucceeded /\ collect_ret # None /\ collect_ret # Some(<<>>) =>
             facade_ret = Ret(Some(collect_ret[1]), None)

\* a positive count, two windows fetched, nothing collected
C11_Witness ==
    /\ pc = "returned"
    /\ ProbeSucceeded
    /\ Len(windows) = 2
    /\ collect_ret = Some(<<>>)
    /\ facade_ret = Ret(None, Some(COLLECT_FAILED))

TransportFailures == {r \in FailureResponses : r.kind \in {"TIMEOUT", "HTTP", "EXCEPTION"}}

\* C12 as stated: a transient transport error of the count probe is reported
\* only after the probe has made 3 requests with backoff between them.
C12_ProbeRetriesThreeTimes ==
    pc = "probed" /\ last_resp \in TransportFailures =>
       /\ probe_requests = 3
       /\ Len(sleeps) = 2

\* C12 amended: the count probe issues a single request and never sleeps; a
\* transient transport error of that request is returned at once as the
\* probe's error, and the facade returns that error for the run.
C12_ProbeSingleRequest ==
    /\ probe_requests <= 1
    /\ pc \in {"probe_wait", "probed"} => sleeps = <<>>
    /\ pc = "probed" /\ last_resp \in TransportFailures =>
          /\ probe_requests = 1
          /\ probe_ret.data = None /\ probe_ret.error # None
    /\ AfterFacade /\ probe_ret.error # None =>
          /\ facade_ret = Ret(None, probe_ret.error)
          /\ probe_requests = 1
          /\ windows = <<>> /\ sleeps = <<>>

\* the probe timed out once and the facade returned the timeout error
C12_Witness ==
    /\ pc = "returned"
    /\ last_resp.kind = "TIMEOUT"
    /\ probe_requests = 1
    /\ facade_ret = Ret(None, Some(ProbeTimeout))

\* the coordinate main() stores for a geocoding response: (lat, lng) or absent
StoredCoordinate(resp) ==
    IF resp.kind = "DOCUMENTS" THEN <<Some(resp.y), Some(resp.x)>> ELSE <<None, None>>

\* C13: enrichment produces one coordinate per record, in record order and
\* with the same count; each lookup appends the coordinate of its own
\* response, absent when the lookup failed (exception, non-200 status, empty
\* documents), leaves the earlier coordinates and the records as they were,
\* and the loop goes on.
C13_EnrichmentPerRecord ==
    /\ [](pc \in {"geo_loop", "geo_wait"} => Len(coordinates) <= Len(facade_ret.data[1]))
    /\ [](pc = "done" /\ facade_ret.error = None =>
             Len(coordinates) = Len(facade_ret.data[1]))
    /\ [][pc = "geo_wait" =>
             /\ coordinates' = Append(coordinates, StoredCoordinate(last_resp'))
             /\ facade_ret' = facade_ret
             /\ pc' = "geo_loop"]_vars
    /\ [][pc = "geo_loop" => coordinates' = coordinates /\ facade_ret' = facade_ret]_vars

\* three records, the lookup of the second failed with an empty documents list
C13_Witness ==
    /\ pc = "done"
    /\ facade_ret.error = None
    /\ Len(facade_ret.data[1]) = 3
    /\ coordinates = <<<<Some(37), Some(127)>>, <<None, None>>, <<Some(37), Some(127)>>>>

CollectorEnded == pc \in {"collected", "raised"}

\* C14: for every total count and every pattern of per-attempt outcomes a
\* collector run ends, provided each request and each sleep completes, and it
\* never starts more than ceil(total_count/100) loop iterations.
C14_CollectorTerminates ==
    /\ <>CollectorEnded
    /\ [](Len(windows) <= Ceil(total_count, 100))
    /\ [][pc = "loop" /\ pc' = "fetch_wait" => Len(windows') = Len(windows) + 1]_vars

\* the third of three windows failed all its attempts and the collector returned
C14_Witness ==
    /\ pc = "collected"
    /\ total_count = 250
    /\ Len(windows) = 3
    /\ attempts = 3
    /\ pages[3].error # None

\* the waits fetch_data_async has made for the current window, oldest first
IsFetcherSleep(sl) == sl.by = "fetcher"
FetcherSleeps == SelectSeq(sleeps, IsFetcherSleep)
\* one time unit of asyncio.sleep; durations are counted in tenths, as sleep(0.2) needs
TimeUnit == 10
RetryableKinds == {"RESULT", "HTTP", "TIMEOUT", "EXCEPTION"}

\* C15: inside fetch_data_async the wait after failed attempt i (counted from
\* 0) and before the next attempt is 2^i time units, whatever the kind of the
\* retryable failure; every further attempt is preceded by such a wait; a
\* window that fails all three attempts has waited 1 and then 2 time units
\* and does not wait after the final failed attempt.
C15_ExponentialBackoff ==
    /\ [](\A k \in 1..Len(FetcherSleeps) : FetcherSleeps[k].d = TimeUnit * 2 ^ (k - 1))
    /\ [](pc = "backoff" =>
             /\ last_resp.kind \in RetryableKinds
             /\ Len(FetcherSleeps) = retry + 1
             /\ FetcherSleeps[retry + 1].d = TimeUnit * 2 ^ retry)
    /\ [](pc = "fetch_wait" => Len(FetcherSleeps) = attempts - 1)
    /\ [](pc = "pause" /\ attempts = 3 /\ fetch_ret.error # None
             /\ last_resp.kind \in RetryableKinds =>
                /\ Len(FetcherSleeps) = 2
                /\ FetcherSleeps[1].d = TimeUnit /\ FetcherSleeps[2].d = 2 * TimeUnit)
    /\ [][attempts' = attempts + 1 =>
            pc = "backoff" /\ pc' = "fetch_wait" /\ sleeps' = sleeps]_vars
    /\ [][pc = "fetch_wait" /\ pc' = "pause" =>
            SelectSeq(sleeps', IsFetcherSleep) = FetcherSleeps]_vars

\* HTTP 500 three times: waits of 1 and 2 time units, none after the third failure
C15_Witness ==
    /\ pc = "pause"
    /\ attempts = 3
    /\ last_resp = [kind |-> "HTTP", status |-> 500]
    /\ fetch_ret = Ret(None, Some(HttpError(500)))
    /\ sleeps = <<[by |-> "fetcher", d |-> 10], [by |-> "fetcher", d |-> 20],
                  [by |-> "collector", d |-> ERROR_PAUSE]>>

C17_MalformedNotRetried ==
    /\ [][pc = "fetch_wait" /\ last_resp'.kind = "MALFORMED" =>
            /\ pc' = "pause"
            /\ fetch_ret' = Ret(None, Some(BadFormat))
            /\ pages' = Append(pages, fetch_ret')
            /\ attempts' = attempts /\ retry' = retry
            /\ inflight' = <<>>
            /\ SelectSeq(sleeps', IsFetcherSleep) = FetcherSleeps]_vars
    /\ [](pc = "backoff" => last_resp.kind # "MALFORMED")
    /\ [](pc = "pause" /\ last_resp.kind = "MALFORMED" =>
             /\ fetch_ret = Ret(None, Some(BadFormat))
             /\ Len(FetcherSleeps) = attempts - 1)

\* a timeout, then an unexpected envelope at the second attempt: one wait, two requests
C17_Witness ==
    /\ pc = "pause"
    /\ last_resp.kind = "MALFORMED"
    /\ attempts = 2
    /\ fetch_ret = Ret(None, Some(BadFormat))
    /\ Len(FetcherSleeps) = 1

\* C18: the error fetch_data_async returns after its third failed attempt
\* describes the window bounds [start, end] and the last failure cause, for
\* every kind of failure (structured API error, non-200 status, timeout,
\* other exception).
C18_ErrorDescribesWindow ==
    pc = "pause" /\ attempts = 3 /\ last_resp \in FailureResponses =>
       /\ fetch_ret.data = None /\ fetch_ret.error # None
       /\ "range" \in DOMAIN fetch_ret.error[1]
       /\ fetch_ret.error[1].range = windows[Len(windows)]
       /\ fetch_ret.error[1].msg =
             CASE last_resp.kind = "RESULT" -> "API error"
               [] last_resp.kind = "HTTP" -> "HTTP error"
               [] last_resp.kind = "TIMEOUT" -> "request timed out"
               [] last_resp.kind = "EXCEPTION" -> "error occurred"

\* C19: the progress sink never affects control flow: whatever the callback
\* does when invoked, a window that is left is begun, the collector returns
\* the records of every window up to total_count, and the facade reports the
\* collection, never an error that comes from the callback.
C19_SinkNeverAffectsControlFlow ==
    /\ pc # "raised"
    /\ pc = "collected" =>
          /\ Len(windows) = Ceil(total_count, 100)
          /\ collect_ret = Some(FlattenOk(pages))
    /\ AfterFacade /\ ProbeSucceeded =>
          /\ collect_ret # None
          /\ facade_ret # Ret(None, Some(CollectException))

\* the progress events that announce a window (not the warnings), oldest first
IsAnnouncement(ev) == ev.error = None
Announcements == SelectSeq(events, IsAnnouncement)

\* C20: with a progress callback, every window is announced by one progress
\* event (windowStart, windowEnd, totalCount, accumulated count) that is
\* already emitted when the first request of the window is in flight; the
\* count is the length of the accumulator after all earlier windows and
\* before this one; the announcements are in strictly increasing
\* windowStart order.
C20_ProgressBeforeFetch ==
    has_cb =>
       /\ Len(Announcements) = Len(windows)
       /\ \A i \in 1..Len(windows) :
             Announcements[i] =
                [start |-> windows[i][1], end |-> windows[i][2], total |-> total_count,
                 collected |-> Len(FlattenOk(SubSeq(pages, 1, i - 1))),
                 status |-> None, error |-> None]
       /\ \A i, j \in 1..Len(Announcements) :
             i < j => Announcements[i].start < Announcements[j].start
       /\ pc = "fetch_wait" =>
             /\ events # <<>>
             /\ Len(pages) = Len(windows) - 1
             /\ events[Len(events)] =
                   [start |-> current_idx, end |-> end_idx, total |-> total_count,
                    collected |-> Len(all_data), status |-> None, error |-> None]
             /\ inflight = <<PageRequest(current_idx, end_idx)>>

\* three windows announced with 0, 2 and 2 records accumulated, the second window failed
C20_Witness ==
    /\ has_cb
    /\ pc = "fetch_wait"
    /\ total_count = 250
    /\ Len(windows) = 3
    /\ pages[2].error # None
    /\ Len(Announcements) = 3
    /\ Announcements[1].collected = 0
    /\ Announcements[2].collected = 2
    /\ Announcements[3] =
          [start |-> 201, end |-> 250, total |-> 250, collected |-> 2,
           status |-> None, error |-> None]

\* the pauses of the collector since the current window began
IsCollectorSleep(sl) == sl.by = "collector"
CollectorSleeps == SelectSeq(sleeps, IsCollectorSleep)

\* C21: after each window and before the next one is requested the collector
\* pauses exactly once: 1 time unit when the window's fetch returned an
\* error, 0.2 time units when it succeeded (an empty page included); while a
\* window is being fetched the collector has not paused, and no window is
\* requested unless the pause of the previous one has been made.
C21_OnePausePerWindow ==
    /\ [](pc \in {"fetch_wait", "backoff"} => CollectorSleeps = <<>>)
    /\ [](pc = "pause" =>
             /\ Len(CollectorSleeps) = 1
             /\ sleeps[Len(sleeps)] = CollectorSleeps[1]
             /\ fetch_ret.error # None => CollectorSleeps[1].d = TimeUnit
             /\ fetch_ret.error = None => CollectorSleeps[1].d * 5 = TimeUnit
             /\ fetch_ret = Ret(Some(<<>>), None) => CollectorSleeps[1].d * 5 = TimeUnit)
    /\ [][pc = "pause" => pc' = "loop" /\ sleeps' = sleeps /\ windows' = windows]_vars
    /\ [][Len(windows') > Len(windows) /\ windows # <<>> =>
            /\ pc = "loop"
            /\ Len(CollectorSleeps) = 1
            /\ Len(pages) = Len(windows)
            /\ CollectorSleeps[1].d =
                  IF pages[Len(pages)].error # None THEN TimeUnit ELSE TimeUnit \div 5]_vars

\* a failed window, then a window the upstream answers with the no-data code: pause of 0.2
C21_Witness ==
    /\ pc = "pause"
    /\ Len(pages) = 2
    /\ pages[1].error # None
    /\ last_resp = INFO_200
    /\ fetch_ret = Ret(Some(<<>>), None)
    /\ sleeps = <<[by |-> "collector", d |-> 2]>>

\* C22: in one run of get_all_rent_data the count probe issues exactly one
\* request and every window gets at least 1 and at most 3 page requests, so
\* the run issues at most 1 + 3 * ceil(total_count / 100) requests to the data
\* API; every page request is for the window the collector is at, which lies
\* after every earlier window and has not been finished yet.
C22_RequestBudget ==
    /\ [](probe_requests = IF pc = "idle" THEN 0 ELSE 1)
    /\ [](windows # <<>> => attempts \in 1..3)
    /\ [](pc # "idle" =>
             /\ run_requests - 1 >= Len(windows)
             /\ run_requests - 1 <= 3 * Len(windows))
    /\ [](run_requests <= 1 + 3 * Ceil(total_count, 100))
    /\ [][inflight' # inflight /\ inflight' # <<>> /\ inflight'[Len(inflight')].op # "geocode" =>
            run_requests' = run_requests + 1]_vars
    /\ [][run_requests' # run_requests /\ pc # "idle" =>
            LET w == windows'[Len(windows')] IN
               /\ run_requests' = run_requests + 1
               /\ attempts' = IF pc = "loop" THEN 1 ELSE attempts + 1
               /\ inflight' = <<PageRequest(w[1], w[2])>>
               /\ Len(pages') = Len(windows') - 1
               /\ \A i \in 1..(Len(windows') - 1) : windows'[i][2] < w[1]]_vars

\* total count 250, every window fails three times: 1 + 3 * 3 requests
C22_Witness ==
    /\ AfterFacade
    /\ total_count = 250
    /\ probe_requests = 1
    /\ Len(windows) = 3
    /\ run_requests = 10

====
